---- MODULE Spec2Model ----
(***************************************************************************)
(* Order status transitions of the order-management slice.                 *)
(*                                                                         *)
(* The store holds the orders table.  A status transition reaches it by    *)
(* one of three routes:                                                    *)
(*   - the edge function update-order-status (service role, no RLS),       *)
(*   - the stored procedure update_order_status (SECURITY DEFINER), of     *)
(*     which the migrations contain three revisions,                       *)
(*   - the client hook updateOrderStatus, which tries the edge function,   *)
(*     then the stored procedure, then direct updates under RLS.           *)
(* Each client session runs one request at a time; requests of different   *)
(* sessions interleave at every store statement.                           *)
(*                                                                         *)
(* Spec       : one session issues requests one after another (every       *)
(*              serial history of transitions on the order).               *)
(* SpecAny    : the same with requests of any kind: without a session, on  *)
(*              an order that does not exist, for a status that is none.   *)
(* SpecRace   : two sessions issue one request each on the new order, and  *)
(*              their store statements interleave in every order.          *)
(* SpecProbe  : an administrator moves the order while another user        *)
(*              repeats a request on it.                                   *)
(* SpecFaulty : one request on the order in any status; store calls may    *)
(*              fail.  SpecLive adds that an awaited call returns.         *)
(* SpecCreate : two sessions create orders with createOrder; an insert     *)
(*              may fail.                                                  *)
(***************************************************************************)
EXTENDS Integers, Sequences, FiniteSets, TLC

(* ---------------------------------------------------------------- bounds *)

\* Largest value of the store clock; the clock values are 1..MaxTime.
MaxTime == 2

(* ------------------------------------------------------------ vocabulary *)

Statuses == {"pending", "processing", "shipped", "delivered", "cancelled"}

\* Principals: A1 holds the admin role, U1 owns order O1, U2 owns nothing.
Users == {"A1", "U1", "U2"}

OrderIds == {"O1"}

\* The caller of a request without a session: auth.uid() is NULL and getUser()
\* finds no user.
Anonymous == "anon"

\* What a well-formed request carries: the caller, the order id and the new
\* status.
Callers == Users
RequestedOrders == OrderIds
RequestedStatuses == Statuses

\* What any request may carry: it may come without a session, name an order
\* that does not exist, and ask for a status outside the enumeration.
AnyCallers == Callers \cup {Anonymous}
AnyOrders == RequestedOrders \cup {"O9"}
AnyStatuses == RequestedStatuses \cup {"refunded"}

\* Concurrent client sessions.
Clients == {"c1", "c2"}

\* The revisions of update_order_status found in the migrations.  The database
\* holds the one whose migration ran last; the migrations' order is not known
\* for all of them, so each may be the one.
Revisions == {"crimson_salad", "fix_cancellation", "secure"}

\* A timestamp column is Null or <<t>>.
Null == <<>>

\* The products an order may be for, and the ids the store gives to the
\* orders that are created.
Products == {"P1", "P2"}
NewOrderIds == {"O2", "O3"}

\* Values of the store clock.
Times == 1..MaxTime

\* Rows of auth.users: id -> email.
auth_users ==
  [u \in Users |-> IF u = "A1" THEN "admin@example.com" ELSE "user@example.com"]

\* Rows of public.user_roles.
user_roles == {<<"A1", "admin">>}

has_role(user_id, role) == <<user_id, role>> \in user_roles

VARIABLES
  orders,   \* the orders table: id -> row
  calls,    \* per client session: the request it runs or ran last
  clock,    \* the store clock
  rpcRev,   \* the revision of update_order_status the database holds
  order_items  \* the order_items table: a set of rows

vars == <<orders, calls, clock, rpcRev, order_items>>

(* ------------------------------------------------------------ the store *)

\* The status column holds values of the enumeration only: a statement that
\* would store another value fails and writes nothing.
orders_status_check(status) == status \in Statuses

\* Mutant of NewOrder: the insert without its status, where the column's
\* default is another status.
NewOrderOtherStatus(user_id) ==
  [user_id |-> user_id, status |-> "processing",
   processing_date |-> Null, shipped_date |-> Null, delivered_date |-> Null,
   updated_at |-> Null]

\* The row createOrder inserts: status pending, milestone columns unset.
NewOrder(user_id) ==
  [user_id |-> user_id, status |-> "pending",
   processing_date |-> Null, shipped_date |-> Null, delivered_date |-> Null,
   updated_at |-> Null]

\* Mutant of MilestoneCase: the CASE without its ELSE part, which yields NULL.
MilestoneCaseNoElse(p_new_status, target, column, t) ==
  IF p_new_status = target /\ column = Null THEN <<t>> ELSE Null

\* CASE WHEN p_new_status = <target> AND <column> IS NULL THEN now() ELSE <column> END
MilestoneCase(p_new_status, target, column, t) ==
  IF p_new_status = target /\ column = Null THEN <<t>> ELSE column

\* UPDATE orders SET status, updated_at and the three milestone columns.
StampedUpdate(row, p_new_status, t) ==
  [row EXCEPT
     !.status = p_new_status,
     !.updated_at = <<t>>,
     !.processing_date = MilestoneCase(p_new_status, "processing", row.processing_date, t),
     !.shipped_date = MilestoneCase(p_new_status, "shipped", row.shipped_date, t),
     !.delivered_date = MilestoneCase(p_new_status, "delivered", row.delivered_date, t)]

(* ------------------------------------------------------------- requests *)

Idle ==
  [pc |-> "idle", via |-> "", caller |-> "", orderId |-> "", newStatus |-> "",
   isAdmin |-> FALSE, owner |-> "", status |-> "", txTime |-> 0,
   edge |-> "", rpc |-> "", ret |-> "", failed |-> "", items |-> {}]

\* A request that starts: the record of the session's previous one is dropped.
Begin(via, caller, orderId, newStatus) ==
  [Idle EXCEPT !.via = via, !.caller = caller, !.orderId = orderId,
               !.newStatus = newStatus]

\* The session runs no request.
Free(c) == calls[c].pc \in {"idle", "done"}

\* The session has run no request yet.
Fresh(c) == calls[c].pc = "idle"

\* The locals of a finished function are gone.
Forget(r) == [r EXCEPT !.isAdmin = FALSE, !.owner = "", !.status = "", !.txTime = 0]

\* The edge function responds `resp`: a direct caller has its answer; the hook
\* returns true on res.ok and otherwise goes on to the stored procedure.
EdgeReturn(r, resp) ==
  LET q == Forget([r EXCEPT !.edge = resp])
  IN  IF r.via = "edge" THEN [q EXCEPT !.pc = "done"]
      ELSE IF resp = "success" THEN [q EXCEPT !.pc = "done", !.ret = "true"]
      ELSE [q EXCEPT !.pc = "hook_rpc"]

\* The stored procedure returns or raises `outcome`: the hook returns true when
\* there is no error and otherwise goes on to the direct updates.
RpcReturn(r, outcome) ==
  LET q == Forget([r EXCEPT !.rpc = outcome])
  IN  IF r.via = "rpc" THEN [q EXCEPT !.pc = "done"]
      ELSE IF outcome = "success" THEN [q EXCEPT !.pc = "done", !.ret = "true"]
      ELSE [q EXCEPT !.pc = "hook_fallback"]

(* ---------------------------------------------------- the edge function *)

\* Mutant of EdgeIsAdmin: the role looked up under a name no row carries.
EdgeIsAdminWrongRole(userId) == has_role(userId, "Admin")

\* index.ts: isAdmin = !!role && !roleErr
EdgeIsAdmin(userId) == has_role(userId, "admin")

\* Mutant of EdgeAllowed: the check of the first cancel policy, pending only.
EdgeAllowedPendingOnly(newStatus, order, userId) ==
  /\ newStatus = "cancelled"
  /\ order.user_id = userId
  /\ order.status = "pending"

\* Mutant of EdgeAllowed: the check without the comparison of the owner.
EdgeAllowedAnyUser(newStatus, order, userId) ==
  /\ newStatus = "cancelled"
  /\ order.status \in {"pending", "processing"}

\* index.ts: the non-admin permission check
EdgeAllowed(newStatus, order, userId) ==
  /\ newStatus = "cancelled"
  /\ order.user_id = userId
  /\ order.status \in {"pending", "processing"}

\* The handler from the request up to the permission check, given the value
\* of isAdmin: the response it returns there, or "" when it goes on to the
\* update.
EdgePermission(isAdmin, userId, orderId, newStatus) ==
  IF orderId = "" \/ newStatus = "" THEN "MISSING_PARAMS"
  ELSE IF userId \notin Users THEN "UNAUTHENTICATED"
  ELSE IF orderId \notin DOMAIN orders THEN "ORDER_NOT_FOUND"
  ELSE IF ~isAdmin /\ ~EdgeAllowed(newStatus, orders[orderId], userId)
       THEN "FORBIDDEN"
       ELSE ""

\* The same when every store call of the handler works.
EdgeDecision(userId, orderId, newStatus) ==
  EdgePermission(EdgeIsAdmin(userId), userId, orderId, newStatus)

\* Mutant of EdgeUpdateRow: the update also resets the milestone columns.
EdgeUpdateRowResetsDates(row, newStatus) ==
  [row EXCEPT !.status = newStatus, !.processing_date = Null,
              !.shipped_date = Null, !.delivered_date = Null]

\* admin.from('orders').update({ status: newStatus }).eq('id', orderId)
EdgeUpdateRow(row, newStatus) == [row EXCEPT !.status = newStatus]

\* serve handler, lines 13-65: role lookup, order fetch, permission check.
EdgeServe(c, via, caller, orderId, newStatus) ==
  /\ Free(c)
  /\ LET r == Begin(via, caller, orderId, newStatus)
         d == EdgeDecision(caller, orderId, newStatus)
     IN  calls' = [calls EXCEPT ![c] =
           IF d # ""
           THEN EdgeReturn(r, d)
           ELSE [r EXCEPT !.pc = "edge_update",
                          !.isAdmin = EdgeIsAdmin(caller),
                          !.owner = orders[orderId].user_id,
                          !.status = orders[orderId].status]]
  /\ UNCHANGED <<orders, clock, rpcRev, order_items>>

\* serve handler, lines 67-76: the update, and UPDATE_FAILED when the store
\* refused it or else the success response.
EdgeUpdate(c) ==
  /\ calls[c].pc = "edge_update"
  /\ LET o == calls[c].orderId
         s == calls[c].newStatus
     IN  IF orders_status_check(s)
         THEN /\ orders' = [orders EXCEPT ![o] = EdgeUpdateRow(orders[o], s)]
              /\ calls' = [calls EXCEPT ![c] = EdgeReturn(calls[c], "success")]
         ELSE /\ orders' = orders
              /\ calls' = [calls EXCEPT ![c] = EdgeReturn(calls[c], "UPDATE_FAILED")]
  /\ UNCHANGED <<clock, rpcRev, order_items>>

(* ------------------------------------- update_order_status, the revisions *)

CancellableStatuses == {"pending", "processing"}

\* Mutant of CrimsonUpdateOrderStatus: the function without IF NOT FOUND.
CrimsonNoNotFound(tbl, p_order_id, p_new_status, t) ==
  IF p_new_status \notin Statuses
  THEN [out |-> "Invalid status", tbl |-> tbl]
  ELSE IF p_order_id \notin DOMAIN tbl
       THEN [out |-> "success", tbl |-> tbl]
       ELSE [out |-> "success",
             tbl |-> [tbl EXCEPT ![p_order_id] = StampedUpdate(tbl[p_order_id], p_new_status, t)]]

\* crimson_salad: the whole function is the status validation and one UPDATE.
\* The outcome and the table after it.
CrimsonUpdateOrderStatus(tbl, p_order_id, p_new_status, t) ==
  IF p_new_status \notin Statuses
  THEN [out |-> "Invalid status", tbl |-> tbl]
  ELSE IF p_order_id \notin DOMAIN tbl
       THEN [out |-> "Order not found", tbl |-> tbl]
       ELSE [out |-> "success",
             tbl |-> [tbl EXCEPT ![p_order_id] = StampedUpdate(tbl[p_order_id], p_new_status, t)]]

\* fix_cancellation, up to the permission check: the exception raised there, or
\* "" when the function goes on to its UPDATE.
FixDecision(v_user_id, p_order_id, p_new_status) ==
  IF v_user_id \notin Users THEN "User not authenticated"
  ELSE IF p_order_id \notin DOMAIN orders THEN "Order not found"
  ELSE IF has_role(v_user_id, "admin") THEN ""
  ELSE IF /\ orders[p_order_id].user_id = v_user_id
          /\ p_new_status = "cancelled"
          /\ orders[p_order_id].status \in CancellableStatuses
       THEN ""
       ELSE "Permission denied"

\* fix_cancellation, the admin UPDATE.
FixAdminUpdate(row, p_new_status, t) == StampedUpdate(row, p_new_status, t)

\* fix_cancellation, the WHERE clause of the owner's UPDATE.
FixCancelMatches(row, v_user_id) ==
  row.user_id = v_user_id /\ row.status \in CancellableStatuses

\* fix_cancellation, the owner's UPDATE and the ROW_COUNT check after it.
FixUserCancel(row, v_user_id, t) ==
  IF FixCancelMatches(row, v_user_id)
  THEN [out |-> "success",
        row |-> [row EXCEPT !.status = "cancelled", !.updated_at = <<t>>]]
  ELSE [out |-> "Cannot cancel order", row |-> row]

\* secure, up to the permission check.
SecureDecision(v_user_id, p_order_id, p_new_status) ==
  IF p_order_id \notin DOMAIN orders THEN "ORDER_NOT_FOUND"
  ELSE IF has_role(v_user_id, "admin") THEN ""
  ELSE IF orders[p_order_id].user_id = v_user_id
       THEN IF /\ p_new_status = "cancelled"
               /\ orders[p_order_id].status \in CancellableStatuses
            THEN ""
            ELSE "NOT_ALLOWED_FOR_USER"
       ELSE "FORBIDDEN"

\* secure, the admin UPDATE.
SecureAdminUpdate(row, p_new_status) == [row EXCEPT !.status = p_new_status]

\* secure, the owner's UPDATE; the function returns true whatever it matched.
SecureUserCancel(row) ==
  IF row.status \in CancellableStatuses
  THEN [out |-> "success", row |-> [row EXCEPT !.status = "cancelled"]]
  ELSE [out |-> "success", row |-> row]

\* now(): the start time of the calling transaction.
TxStart == clock

\* The call of update_order_status by request r: the first statements of the
\* revision the database holds.
RpcEnter(c, r) ==
  LET t == TxStart
      u == r.caller
      o == r.orderId
      s == r.newStatus
      d == IF rpcRev = "fix_cancellation" THEN FixDecision(u, o, s)
           ELSE SecureDecision(u, o, s)
  IN  IF rpcRev = "crimson_salad"
      THEN LET x == CrimsonUpdateOrderStatus(orders, o, s, t)
           IN  /\ orders' = x.tbl
               /\ calls' = [calls EXCEPT ![c] = RpcReturn(r, x.out)]
      ELSE /\ orders' = orders
           /\ calls' = [calls EXCEPT ![c] =
                IF d # ""
                THEN RpcReturn(r, d)
                ELSE [r EXCEPT !.pc = "rpc_update",
                               !.txTime = t,
                               !.isAdmin = has_role(u, "admin"),
                               !.owner = orders[o].user_id,
                               !.status = orders[o].status]]

\* supabase.rpc('update_order_status', ...) called directly.
RpcCall(c, caller, orderId, newStatus) ==
  /\ Free(c)
  /\ RpcEnter(c, Begin("rpc", caller, orderId, newStatus))
  /\ UNCHANGED <<clock, rpcRev, order_items>>

\* The UPDATE of update_order_status and its return; an UPDATE the store
\* refuses raises its error out of the function.
RpcUpdate(c) ==
  /\ calls[c].pc = "rpc_update"
  /\ LET r == calls[c]
         o == r.orderId
         t == r.txTime
         x == IF r.isAdmin /\ ~orders_status_check(r.newStatus)
              THEN [out |-> "check_violation", row |-> orders[o]]
              ELSE IF r.isAdmin
              THEN [out |-> "success",
                    row |-> IF rpcRev = "fix_cancellation"
                            THEN FixAdminUpdate(orders[o], r.newStatus, t)
                            ELSE SecureAdminUpdate(orders[o], r.newStatus)]
              ELSE IF rpcRev = "fix_cancellation"
                   THEN FixUserCancel(orders[o], r.caller, t)
                   ELSE SecureUserCancel(orders[o])
     IN  /\ orders' = [orders EXCEPT ![o] = x.row]
         /\ calls' = [calls EXCEPT ![c] = RpcReturn(r, x.out)]
  /\ UNCHANGED <<clock, rpcRev, order_items>>

(* ------------------------------------------------- row-level security *)

\* "Users can update own orders"
PolicyOwnUsing(uid, row) == uid = row.user_id
PolicyOwnCheck(uid, row) == uid = row.user_id

\* "Admins can manage all orders": USING only, so it is the check too.
PolicyAdminEmail(uid) == uid \in DOMAIN auth_users /\ auth_users[uid] = "admin@example.com"

\* "Users can cancel their own orders (pending or processing)"
PolicyCancelUsing(uid, row) == uid = row.user_id /\ row.status \in CancellableStatuses
PolicyCancelCheck(uid, row) == uid = row.user_id /\ row.status = "cancelled"

\* "Admins can update all orders"
PolicyAdminRole(uid) == has_role(uid, "admin")

\* Permissive policies are OR-ed: the rows an UPDATE may touch, and the new
\* rows it may leave.
RlsUsing(uid, row) ==
  \/ PolicyOwnUsing(uid, row)
  \/ PolicyAdminEmail(uid)
  \/ PolicyCancelUsing(uid, row)
  \/ PolicyAdminRole(uid)

RlsCheck(uid, row) ==
  \/ PolicyOwnCheck(uid, row)
  \/ PolicyAdminEmail(uid)
  \/ PolicyCancelCheck(uid, row)
  \/ PolicyAdminRole(uid)

\* An UPDATE ... SET status through the client, as user uid, of the rows with
\* the given id that `filter` keeps: rows RLS hides are skipped without error;
\* a new row that fails WITH CHECK or the status check is an error and nothing
\* is written.
RlsUpdate(tbl, uid, orderId, status, filter(_)) ==
  IF orderId \in DOMAIN tbl /\ filter(tbl[orderId]) /\ RlsUsing(uid, tbl[orderId])
  THEN LET new == [tbl[orderId] EXCEPT !.status = status]
       IN  IF RlsCheck(uid, new) /\ orders_status_check(status)
           THEN [error |-> FALSE, tbl |-> [tbl EXCEPT ![orderId] = new]]
           ELSE [error |-> TRUE, tbl |-> tbl]
  ELSE [error |-> FALSE, tbl |-> tbl]

(* ------------------------------------------------------ the client hook *)

\* updateOrderStatus, the fetch of the edge function.
HookCall(c, caller, orderId, newStatus) ==
  /\ Free(c)
  /\ EdgeServe(c, "hook", caller, orderId, newStatus)

\* updateOrderStatus, the rpc after the edge function refused.
HookRpc(c) ==
  /\ calls[c].pc = "hook_rpc"
  /\ RpcEnter(c, calls[c])
  /\ UNCHANGED <<clock, rpcRev, order_items>>

Fallback1Filter(row) == TRUE

\* updateOrderStatus, fallback 2: .eq('user_id', user.id).in('status', [...])
Fallback2Filter(user, row) ==
  row.user_id = user /\ row.status \in CancellableStatuses

\* updateOrderStatus, lines 171-198: the direct update, the owner-constrained
\* retry when it failed, and the return value.  The retry runs only after a
\* direct update that was an error and wrote nothing, so the two statements
\* are one step here.
HookFallback(c) ==
  /\ calls[c].pc = "hook_fallback"
  /\ LET r == calls[c]
         F2(row) == Fallback2Filter(r.caller, row)
         a == RlsUpdate(orders, r.caller, r.orderId, r.newStatus, Fallback1Filter)
         b == IF a.error /\ r.newStatus = "cancelled" /\ r.caller \in Users
              THEN RlsUpdate(a.tbl, r.caller, r.orderId, "cancelled", F2)
              ELSE a
     IN  /\ orders' = b.tbl
         /\ calls' = [calls EXCEPT ![c] =
              [r EXCEPT !.pc = "done", !.ret = IF b.error THEN "false" ELSE "true"]]
  /\ UNCHANGED <<clock, rpcRev, order_items>>

(* ----------------------------------------------------------- createOrder *)

\* "Users can insert own orders" and, for an insert, "Admins can manage all
\* orders".
RlsInsertCheck(uid, row) == uid = row.user_id \/ PolicyAdminEmail(uid)

\* The rows createOrder inserts into order_items.
ItemRows(order_id, items) == {[order_id |-> order_id, product_id |-> p] : p \in items}

\* createOrder, lines 85-103: null without a user; else the insert of the
\* order, to which the store gives an id.
CreateOrder(c, caller, items) ==
  /\ Free(c)
  /\ LET r == [Idle EXCEPT !.via = "create", !.caller = caller, !.items = items]
     IN  IF caller \notin Users
         THEN /\ calls' = [calls EXCEPT ![c] = [r EXCEPT !.pc = "done", !.ret = "null"]]
              /\ orders' = orders
         ELSE \E id \in NewOrderIds \ DOMAIN orders :
                IF RlsInsertCheck(caller, NewOrder(caller))
                THEN /\ orders' = orders @@ (id :> NewOrder(caller))
                     /\ calls' = [calls EXCEPT ![c] =
                          [r EXCEPT !.pc = "create_items", !.orderId = id]]
                ELSE /\ orders' = orders
                     /\ calls' = [calls EXCEPT ![c] =
                          [r EXCEPT !.pc = "done", !.ret = "null"]]
  /\ UNCHANGED <<clock, rpcRev, order_items>>

\* createOrder, lines 88-103 and 123-127: the insert of the order fails
\* (orderError), which is thrown, caught, and null is returned.
CreateOrderFails(c, caller, items) ==
  /\ Free(c)
  /\ caller \in Users
  /\ calls' = [calls EXCEPT ![c] =
       [Idle EXCEPT !.via = "create", !.caller = caller, !.items = items,
                    !.pc = "done", !.ret = "null", !.failed = "orders"]]
  /\ UNCHANGED <<orders, clock, rpcRev, order_items>>

\* createOrder, lines 105-122: the insert of the order's items, and the order
\* is returned.
CreateItems(c) ==
  /\ calls[c].pc = "create_items"
  /\ order_items' = order_items \cup ItemRows(calls[c].orderId, calls[c].items)
  /\ calls' = [calls EXCEPT ![c] = [calls[c] EXCEPT !.pc = "done", !.ret = "order"]]
  /\ UNCHANGED <<orders, clock, rpcRev>>

\* createOrder, lines 113-119 and 123-127: the insert of the items fails
\* (itemsError), which is thrown, caught, and null is returned.
CreateItemsFails(c) ==
  /\ calls[c].pc = "create_items"
  /\ calls' = [calls EXCEPT ![c] =
       [calls[c] EXCEPT !.pc = "done", !.ret = "null", !.failed = "order_items"]]
  /\ UNCHANGED <<orders, clock, rpcRev, order_items>>

(* ---------------------------------------------------- failing store calls *)

\* What may fail in the handler before the update: getUser (userErr), the
\* select on user_roles (roleErr), the select on orders (orderErr), or a
\* statement that throws.
EdgeServeFaults == {"getUser", "user_roles", "orders", "thrown"}

\* serve handler, lines 13-65, with one failing call: userErr is answered
\* UNAUTHENTICATED, roleErr leaves isAdmin false, orderErr is answered
\* ORDER_NOT_FOUND, and what is thrown is caught and answered SERVER_ERROR.
\* The selects are reached only with a user.
EdgeServeFails(c, via, caller, orderId, newStatus, f) ==
  /\ Free(c)
  /\ f \in {"user_roles", "orders"} => caller \in Users
  /\ LET r == [Begin(via, caller, orderId, newStatus) EXCEPT !.failed = f]
         d == IF f = "thrown" THEN "SERVER_ERROR"
              ELSE IF f = "getUser" THEN "UNAUTHENTICATED"
              ELSE IF f = "orders" THEN "ORDER_NOT_FOUND"
              ELSE EdgePermission(FALSE, caller, orderId, newStatus)
     IN  calls' = [calls EXCEPT ![c] =
           IF d # ""
           THEN EdgeReturn(r, d)
           ELSE [r EXCEPT !.pc = "edge_update",
                          !.isAdmin = FALSE,
                          !.owner = orders[orderId].user_id,
                          !.status = orders[orderId].status]]
  /\ UNCHANGED <<orders, clock, rpcRev, order_items>>

\* serve handler, lines 67-74: the update fails (updErr) and nothing is written.
EdgeUpdateFails(c) ==
  /\ calls[c].pc = "edge_update"
  /\ calls' = [calls EXCEPT ![c] =
       EdgeReturn([calls[c] EXCEPT !.failed = "update"], "UPDATE_FAILED")]
  /\ UNCHANGED <<orders, clock, rpcRev, order_items>>

\* updateOrderStatus, lines 156-169: the rpc fails before the function runs.
HookRpcFails(c) ==
  /\ calls[c].pc = "hook_rpc"
  /\ calls' = [calls EXCEPT ![c] =
       RpcReturn([calls[c] EXCEPT !.failed = "rpc"], "rpc failed")]
  /\ UNCHANGED <<orders, clock, rpcRev, order_items>>

\* updateOrderStatus, lines 171-198, when the direct update fails: the
\* owner-constrained retry for a cancellation by a signed-in user, which may
\* fail too (`again`), and the return value.
HookFallbackFails(c, again) ==
  /\ calls[c].pc = "hook_fallback"
  /\ LET r == [calls[c] EXCEPT !.failed = "update"]
         F2(row) == Fallback2Filter(r.caller, row)
         b == IF r.newStatus = "cancelled" /\ r.caller \in Users /\ ~again
              THEN RlsUpdate(orders, r.caller, r.orderId, "cancelled", F2)
              ELSE [error |-> TRUE, tbl |-> orders]
     IN  /\ orders' = b.tbl
         /\ calls' = [calls EXCEPT ![c] =
              [r EXCEPT !.pc = "done", !.ret = IF b.error THEN "false" ELSE "true"]]
  /\ UNCHANGED <<clock, rpcRev, order_items>>

(* ------------------------------------------------------------ the clock *)

\* Time passes.
Tick ==
  /\ clock + 1 \in Times
  /\ clock' = clock + 1
  /\ UNCHANGED <<orders, calls, rpcRev, order_items>>

(* -------------------------------------------------------- specification *)

Init ==
  /\ orders = [o \in OrderIds |-> NewOrder("U1")]
  /\ calls = [c \in Clients |-> Idle]
  /\ clock = 1
  /\ rpcRev \in Revisions
  /\ order_items = {[order_id |-> o, product_id |-> "P1"] : o \in OrderIds}

\* The session of the serial histories.
Serial == {"c1"}

Next ==
  \/ \E c \in Serial, u \in Callers, o \in RequestedOrders, s \in RequestedStatuses :
       EdgeServe(c, "edge", u, o, s)
  \/ \E c \in Serial : EdgeUpdate(c)
  \/ \E c \in Serial, u \in Callers, o \in RequestedOrders, s \in RequestedStatuses :
       RpcCall(c, u, o, s)
  \/ \E c \in Serial : RpcUpdate(c)
  \/ \E c \in Serial, u \in Callers, o \in RequestedOrders, s \in RequestedStatuses :
       HookCall(c, u, o, s)
  \/ \E c \in Serial : HookRpc(c)
  \/ \E c \in Serial : HookFallback(c)
  \/ Tick

Spec == Init /\ [][Next]_vars

\* SpecAny : the serial histories of requests of any kind, well-formed or not.
NextAny ==
  \/ \E c \in Serial, u \in AnyCallers, o \in AnyOrders, s \in AnyStatuses :
       EdgeServe(c, "edge", u, o, s)
  \/ \E c \in Serial : EdgeUpdate(c)
  \/ \E c \in Serial, u \in AnyCallers, o \in AnyOrders, s \in AnyStatuses :
       RpcCall(c, u, o, s)
  \/ \E c \in Serial : RpcUpdate(c)
  \/ \E c \in Serial, u \in AnyCallers, o \in AnyOrders, s \in AnyStatuses :
       HookCall(c, u, o, s)
  \/ \E c \in Serial : HookRpc(c)
  \/ \E c \in Serial : HookFallback(c)

SpecAny == Init /\ [][NextAny]_vars

NextRace ==
  \/ \E c \in Clients, u \in Callers, o \in RequestedOrders, s \in RequestedStatuses :
       Fresh(c) /\ EdgeServe(c, "edge", u, o, s)
  \/ \E c \in Clients : EdgeUpdate(c)
  \/ \E c \in Clients, u \in Callers, o \in RequestedOrders, s \in RequestedStatuses :
       Fresh(c) /\ RpcCall(c, u, o, s)
  \/ \E c \in Clients : RpcUpdate(c)
  \/ \E c \in Clients, u \in Callers, o \in RequestedOrders, s \in RequestedStatuses :
       Fresh(c) /\ HookCall(c, u, o, s)
  \/ \E c \in Clients : HookRpc(c)
  \/ \E c \in Clients : HookFallback(c)
  \/ Tick

SpecRace == Init /\ [][NextRace]_vars

\* SpecFaulty : one request, made by the edge function or by the hook, on the
\*              order in whatever status, when store calls may fail.
\* SpecLive   : the same, where a request that has begun goes on: each call it
\*              awaits returns, with its result or with its failure.

\* The order in whatever status: an administrator's requests to the edge
\* function take the new order there and leave its other columns as they are.
InitAnyStatus ==
  /\ \E s \in Statuses :
       orders = [o \in OrderIds |-> [NewOrder("U1") EXCEPT !.status = s]]
  /\ calls = [c \in Clients |-> Idle]
  /\ clock = 1
  /\ rpcRev \in Revisions
  /\ order_items = {[order_id |-> o, product_id |-> "P1"] : o \in OrderIds}

NextFaulty ==
  \/ \E c \in Serial, u \in AnyCallers, o \in AnyOrders, s \in AnyStatuses :
       Fresh(c) /\ EdgeServe(c, "edge", u, o, s)
  \/ \E c \in Serial, u \in AnyCallers, o \in AnyOrders, s \in AnyStatuses,
         f \in EdgeServeFaults :
       Fresh(c) /\ EdgeServeFails(c, "edge", u, o, s, f)
  \/ \E c \in Serial : EdgeUpdate(c)
  \/ \E c \in Serial : EdgeUpdateFails(c)
  \/ \E c \in Serial, u \in AnyCallers, o \in AnyOrders, s \in AnyStatuses :
       Fresh(c) /\ HookCall(c, u, o, s)
  \/ \E c \in Serial, u \in AnyCallers, o \in AnyOrders, s \in AnyStatuses,
         f \in EdgeServeFaults :
       Fresh(c) /\ EdgeServeFails(c, "hook", u, o, s, f)
  \/ \E c \in Serial : HookRpc(c)
  \/ \E c \in Serial : HookRpcFails(c)
  \/ \E c \in Serial : RpcUpdate(c)
  \/ \E c \in Serial : HookFallback(c)
  \/ \E c \in Serial, again \in BOOLEAN : HookFallbackFails(c, again)

SpecFaulty == InitAnyStatus /\ [][NextFaulty]_vars

\* The steps that take a request that has begun further.
Continue(c) ==
  \/ EdgeUpdate(c)
  \/ EdgeUpdateFails(c)
  \/ HookRpc(c)
  \/ HookRpcFails(c)
  \/ RpcUpdate(c)
  \/ HookFallback(c)
  \/ \E again \in BOOLEAN : HookFallbackFails(c, again)

SpecLive == SpecFaulty /\ \A c \in Serial : WF_vars(Continue(c))

\* SpecCreate : the two sessions create orders, one after another and at the
\*              same time; an insert may fail.
ItemLists == SUBSET Products \ {{}}

NextCreate ==
  \/ \E c \in Clients, u \in AnyCallers, items \in ItemLists : CreateOrder(c, u, items)
  \/ \E c \in Clients, u \in AnyCallers, items \in ItemLists : CreateOrderFails(c, u, items)
  \/ \E c \in Clients : CreateItems(c)
  \/ \E c \in Clients : CreateItemsFails(c)

SpecCreate == Init /\ [][NextCreate]_vars

\* SpecProbe : the session c1 is an administrator's, who moves the order from
\*             status to status; the session c2 is that of a signed-in caller
\*             who is neither administrator nor owner and sends requests on
\*             the order, one after another, while the status changes.
Operator == "c1"

Probe == "c2"

NextProbe ==
  \/ \E u \in Users, o \in OrderIds, s \in Statuses :
       has_role(u, "admin") /\ EdgeServe(Operator, "edge", u, o, s)
  \/ \E u \in Users, o \in OrderIds, s \in Statuses :
       has_role(u, "admin") /\ RpcCall(Operator, u, o, s)
  \/ \E u \in Users, o \in OrderIds, s \in AnyStatuses :
       /\ ~has_role(u, "admin") /\ u # orders[o].user_id
       /\ EdgeServe(Probe, "edge", u, o, s)
  \/ \E u \in Users, o \in OrderIds, s \in AnyStatuses :
       /\ ~has_role(u, "admin") /\ u # orders[o].user_id
       /\ RpcCall(Probe, u, o, s)
  \/ \E c \in Clients : EdgeUpdate(c)
  \/ \E c \in Clients : RpcUpdate(c)
  \/ Tick

SpecProbe == Init /\ [][NextProbe]_vars

(* ------------------------------------------- a call run on its own *)

\* What the edge function does with a request when no other call runs between
\* its statements: whether it answers success, and the status it leaves.
EdgeOutcome(userId, orderId, newStatus) ==
  LET d == EdgeDecision(userId, orderId, newStatus)
      row == orders[orderId]
  IN  IF d = "" /\ orders_status_check(newStatus)
      THEN [allowed |-> TRUE, status |-> EdgeUpdateRow(row, newStatus).status]
      ELSE [allowed |-> FALSE, status |-> row.status]

\* The same for revision rev of update_order_status.
RpcOutcome(rev, v_user_id, p_order_id, p_new_status) ==
  LET t == TxStart
      row == orders[p_order_id]
      admin == has_role(v_user_id, "admin")
      d == IF rev = "fix_cancellation"
           THEN FixDecision(v_user_id, p_order_id, p_new_status)
           ELSE SecureDecision(v_user_id, p_order_id, p_new_status)
      x == IF rev = "fix_cancellation"
           THEN FixUserCancel(row, v_user_id, t)
           ELSE SecureUserCancel(row)
      y == IF rev = "fix_cancellation"
           THEN FixAdminUpdate(row, p_new_status, t)
           ELSE SecureAdminUpdate(row, p_new_status)
      z == CrimsonUpdateOrderStatus(orders, p_order_id, p_new_status, t)
  IN  IF rev = "crimson_salad"
      THEN [allowed |-> z.out = "success", status |-> z.tbl[p_order_id].status]
      ELSE IF d # "" \/ (admin /\ ~orders_status_check(p_new_status))
      THEN [allowed |-> FALSE, status |-> row.status]
      ELSE IF admin
      THEN [allowed |-> TRUE, status |-> y.status]
      ELSE [allowed |-> x.out = "success", status |-> x.row.status]

(* ------------------------------------------------- reading a behaviour *)

Owner(o) == orders[o].user_id

IsAdmin(u) == has_role(u, "admin")

\* What the Authority (edge function or stored procedure) answered last to
\* the request of session c; "" when it has not answered.
Answer(r) == IF r.rpc # "" THEN r.rpc ELSE r.edge

\* This step is a step of session c's request (a request that repeats the
\* session's last one may leave its record as it was).
Acts(c) == calls'[c] # calls[c] \/ (calls' = calls /\ orders' # orders)

\* This step is a step of the edge function or of the stored procedure for
\* session c (every step of a request but the hook's direct updates).
AuthorityStep(c) == Acts(c) /\ calls[c].pc # "hook_fallback"

\* In this step the edge function or the stored procedure answers session c.
AuthorityAnswers(c) ==
  /\ AuthorityStep(c)
  /\ Answer(calls'[c]) # ""
  /\ calls'[c].pc \in {"done", "hook_rpc", "hook_fallback"}

\* In this step session c runs the UPDATE that follows an earlier read.
UpdateStep(c) == Acts(c) /\ calls[c].pc \in {"edge_update", "rpc_update"}

\* The answers that tell a caller the order is not theirs to change: the
\* FORBIDDEN of the edge function and of the latest stored procedure, and the
\* exception of the fix_cancellation revision.
ForbiddenAnswers == {"FORBIDDEN", "Permission denied"}

LateStatuses == {"shipped", "delivered", "cancelled"}

MilestoneStatuses == {"processing", "shipped", "delivered"}

MilestoneOf(row, status) ==
  IF status = "processing" THEN row.processing_date
  ELSE IF status = "shipped" THEN row.shipped_date
  ELSE row.delivered_date

(* ---------------------------------------------------------------- claims *)

\* C1: with the latest revision of the stored procedure in the database, every
\* status change made by a step of the edge function or the stored procedure on
\* behalf of a non-admin caller takes the order from pending or processing to
\* cancelled, whatever other transition commits between the call's read and
\* its write.
C1_NonAdminOnlyCancelsOpenOrder ==
  [][\A c \in Clients :
       (rpcRev = "secure" /\ AuthorityStep(c) /\ ~IsAdmin(calls'[c].caller))
       => \A o \in OrderIds :
            orders'[o].status # orders[o].status
            => /\ orders[o].status \in CancellableStatuses
               /\ orders'[o].status = "cancelled"]_vars

\* C2: when the two sessions have each run one cancellation of the order by its
\* owner (edge function, or the latest revision of the stored procedure), exactly
\* one of the two was answered success, and the order is cancelled.
C2_ExactlyOneCancellationSucceeds ==
  (/\ rpcRev = "secure"
   /\ \A c \in Clients :
        /\ calls[c].pc = "done"
        /\ calls[c].via \in {"edge", "rpc"}
        /\ calls[c].orderId = "O1"
        /\ calls[c].caller = Owner("O1")
        /\ ~IsAdmin(calls[c].caller)
        /\ calls[c].newStatus = "cancelled")
  => /\ Cardinality({c \in Clients : Answer(calls[c]) = "success"}) = 1
     /\ orders["O1"].status = "cancelled"

\* C3: an UPDATE of the edge function or of the latest stored procedure that
\* finds the order in another status than the call read leaves the order as it
\* is and is not answered success.
C3_StaleWriteNotApplied ==
  [][\A c \in Clients :
       (/\ rpcRev = "secure"
        /\ UpdateStep(c)
        /\ orders[calls[c].orderId].status # calls[c].status)
       => /\ orders' = orders
          /\ Answer(calls'[c]) # "success"]_vars

\* C4: a request by a signed-in caller who is neither an administrator nor the
\* owner of the order, for a status of the enumeration, is answered FORBIDDEN by
\* the edge function and by the stored procedure, and no step of theirs changes
\* the order.
C4_StrangerForbidden ==
  [][\A c \in Clients :
       (/\ AuthorityStep(c)
        /\ calls'[c].orderId \in OrderIds
        /\ calls'[c].caller \in Users
        /\ calls'[c].newStatus \in Statuses
        /\ ~IsAdmin(calls'[c].caller)
        /\ calls'[c].caller # Owner(calls'[c].orderId))
       => /\ orders' = orders
          /\ AuthorityAnswers(c) => Answer(calls'[c]) \in ForbiddenAnswers]_vars

\* C5: with the latest revision of the stored procedure in the database, a
\* cancellation by the non-admin owner of an order that is shipped, delivered or
\* cancelled is answered NOT_ALLOWED_FOR_USER and leaves the status as it is.
C5_LateCancelNotAllowedForUser ==
  [][\A c \in Clients :
       (/\ rpcRev = "secure"
        /\ AuthorityAnswers(c)
        /\ calls'[c].orderId \in OrderIds
        /\ calls'[c].caller = Owner(calls'[c].orderId)
        /\ ~IsAdmin(calls'[c].caller)
        /\ calls'[c].newStatus = "cancelled"
        /\ orders[calls'[c].orderId].status \in LateStatuses)
       => /\ Answer(calls'[c]) = "NOT_ALLOWED_FOR_USER"
          /\ orders'[calls'[c].orderId].status = orders[calls'[c].orderId].status]_vars

\* C6: in a serial history, a cancellation by the non-admin owner of an order
\* that is pending or processing is answered success by the edge function and
\* by every revision of the stored procedure, and leaves the order cancelled.
C6_OwnerCancelSucceeds ==
  [][\A c \in Clients :
       (/\ AuthorityAnswers(c)
        /\ calls'[c].orderId \in OrderIds
        /\ calls'[c].caller = Owner(calls'[c].orderId)
        /\ ~IsAdmin(calls'[c].caller)
        /\ calls'[c].newStatus = "cancelled"
        /\ orders[calls'[c].orderId].status \in CancellableStatuses)
       => /\ Answer(calls'[c]) = "success"
          /\ orders'[calls'[c].orderId].status = "cancelled"]_vars

\* C6 witness: the owner's cancellation of an order that had reached processing
\* was answered success and the order is cancelled.
C6_Witness ==
  \E c \in Clients :
    /\ calls[c].pc = "done"
    /\ calls[c].caller = "U1"
    /\ calls[c].newStatus = "cancelled"
    /\ Answer(calls[c]) = "success"
    /\ orders["O1"].status = "cancelled"
    /\ orders["O1"].processing_date # Null
    /\ orders["O1"].shipped_date = Null
    /\ orders["O1"].delivered_date = Null

\* C7: a request of an administrator for a status of the enumeration on an
\* existing order, whatever its current status, is answered success and leaves
\* the order in the requested status.
C7_AdminAlwaysSucceeds ==
  [][\A c \in Clients :
       (/\ AuthorityAnswers(c)
        /\ calls'[c].orderId \in OrderIds
        /\ IsAdmin(calls'[c].caller)
        /\ calls'[c].newStatus \in Statuses)
       => /\ Answer(calls'[c]) = "success"
          /\ orders'[calls'[c].orderId].status = calls'[c].newStatus]_vars

\* C7 witness: an administrator's request took an order that had been delivered
\* back to pending.
C7_Witness ==
  \E c \in Clients :
    /\ calls[c].pc = "done"
    /\ calls[c].caller = "A1"
    /\ calls[c].newStatus = "pending"
    /\ Answer(calls[c]) = "success"
    /\ orders["O1"].status = "pending"
    /\ orders["O1"].delivered_date # Null

\* C8: no step changes or clears a milestone timestamp that is set.
C8_MilestoneKeepsFirstValue ==
  [][\A o \in OrderIds :
       /\ orders[o].processing_date # Null
          => orders'[o].processing_date = orders[o].processing_date
       /\ orders[o].shipped_date # Null
          => orders'[o].shipped_date = orders[o].shipped_date
       /\ orders[o].delivered_date # Null
          => orders'[o].delivered_date = orders[o].delivered_date]_vars

\* C8 witness: the order entered processing at time 1, went on to shipped at
\* time 2 and has been taken back into processing by a stamped transition at
\* time 2, which left processing_date as it was.
C8_Witness ==
  \E c \in Clients :
    /\ calls[c].pc = "done"
    /\ calls[c].via = "rpc"
    /\ calls[c].newStatus = "processing"
    /\ Answer(calls[c]) = "success"
    /\ orders["O1"].status = "processing"
    /\ orders["O1"].processing_date = <<1>>
    /\ orders["O1"].shipped_date = <<2>>
    /\ orders["O1"].updated_at = <<2>>

\* C9: when an administrator's request for processing, shipped or delivered is
\* answered success, the milestone timestamp of that status is set.
C9_AdminTransitionSetsMilestone ==
  [][\A c \in Clients :
       (/\ AuthorityAnswers(c)
        /\ calls'[c].orderId \in OrderIds
        /\ IsAdmin(calls'[c].caller)
        /\ calls'[c].newStatus \in MilestoneStatuses
        /\ Answer(calls'[c]) = "success")
       => MilestoneOf(orders'[calls'[c].orderId], calls'[c].newStatus) # Null]_vars

\* C10: the steps of the hook that follow the Authority's refusal leave the
\* orders table as it is.
C10_HookWritesOnlyThroughAuthority ==
  [][\A c \in Clients :
       (Acts(c) /\ calls[c].pc = "hook_fallback") => orders' = orders]_vars

\* The answers that tell a caller the requested status is not a status: the
\* exception of the crimson_salad revision, and INVALID_STATUS.
InvalidStatusAnswers == {"INVALID_STATUS", "Invalid status"}

\* C11: a request by a signed-in caller, administrator or not, for a status
\* outside the enumeration on an existing order is answered with the invalid
\* status error by the edge function and by the stored procedure, no step of
\* such a request changes the order, and no step at all leaves an order in a
\* status outside the enumeration.
C11_InvalidStatusRejected ==
  [][/\ \A c \in Clients :
          (/\ AuthorityStep(c)
           /\ calls'[c].caller \in Users
           /\ calls'[c].orderId \in OrderIds
           /\ calls'[c].newStatus \notin Statuses)
          => /\ orders' = orders
             /\ AuthorityAnswers(c) => Answer(calls'[c]) \in InvalidStatusAnswers
     /\ \A o \in DOMAIN orders' : orders'[o].status \in Statuses]_vars

\* The answers that tell a caller there is no such order.
OrderNotFoundAnswers == {"ORDER_NOT_FOUND", "Order not found"}

\* C12 as stated: a request by a signed-in caller that names an order that does
\* not exist is answered with the order-not-found error, whatever the caller's
\* role and whatever status it asks for, and changes no order.
C12_MissingOrderNotFound ==
  [][\A c \in Clients :
       (/\ AuthorityStep(c)
        /\ calls'[c].caller \in Users
        /\ calls'[c].orderId \notin DOMAIN orders)
       => /\ orders' = orders
          /\ AuthorityAnswers(c) => Answer(calls'[c]) \in OrderNotFoundAnswers]_vars

\* C12 amended: such a request changes no order and is answered with the
\* order-not-found error when it asks for a status of the enumeration; when it
\* asks for another status it is answered with the order-not-found error or the
\* invalid-status error.
C12_MissingOrderRejected ==
  [][\A c \in Clients :
       (/\ AuthorityStep(c)
        /\ calls'[c].caller \in Users
        /\ calls'[c].orderId \notin DOMAIN orders)
       => /\ orders' = orders
          /\ AuthorityAnswers(c)
             => \/ Answer(calls'[c]) \in OrderNotFoundAnswers
                \/ /\ calls'[c].newStatus \notin Statuses
                   /\ Answer(calls'[c]) \in InvalidStatusAnswers]_vars

\* C12 witness: an administrator's request for a status of the enumeration on
\* the order id that does not exist has been answered with the order-not-found
\* error, after the existing order had been moved on.
C12_Witness ==
  \E c \in Clients :
    /\ calls[c].pc = "done"
    /\ calls[c].via \in {"edge", "rpc"}
    /\ calls[c].caller = "A1"
    /\ calls[c].orderId = "O9"
    /\ calls[c].newStatus = "shipped"
    /\ Answer(calls[c]) \in OrderNotFoundAnswers
    /\ orders["O1"].status = "delivered"

\* The answers that tell a caller it is not signed in.
UnauthenticatedAnswers == {"UNAUTHENTICATED", "User not authenticated"}

\* C13: with a revision of the stored procedure that looks at the caller in the
\* database, a request without a session is answered with the unauthenticated
\* error by the edge function and by the stored procedure, whether or not the
\* order it names exists, and no step of it changes an order.
C13_AnonymousUnauthenticated ==
  [][\A c \in Clients :
       (/\ rpcRev # "crimson_salad"
        /\ AuthorityStep(c)
        /\ calls'[c].caller \notin Users)
       => /\ orders' = orders
          /\ AuthorityAnswers(c) => Answer(calls'[c]) \in UnauthenticatedAnswers]_vars

\* C14: when a cancellation by the non-admin owner of an order is answered
\* success, the step that answers it leaves every column of every order as it
\* was, but status and updated_at of the order it names: processing_date,
\* shipped_date and delivered_date keep their values.
C14_CancelKeepsMilestones ==
  [][\A c \in Clients :
       (/\ AuthorityAnswers(c)
        /\ calls'[c].orderId \in DOMAIN orders
        /\ calls'[c].caller = Owner(calls'[c].orderId)
        /\ ~IsAdmin(calls'[c].caller)
        /\ calls'[c].newStatus = "cancelled"
        /\ Answer(calls'[c]) = "success")
       => \A o \in DOMAIN orders :
            IF o = calls'[c].orderId
            THEN orders'[o] = [orders[o] EXCEPT !.status = orders'[o].status,
                                                !.updated_at = orders'[o].updated_at]
            ELSE orders'[o] = orders[o]]_vars

\* C14 witness: the owner has cancelled, at time 2, the order that entered
\* processing at time 1; processing_date is still the time 1.
C14_Witness ==
  \E c \in Clients :
    /\ calls[c].pc = "done"
    /\ calls[c].caller = "U1"
    /\ calls[c].orderId = "O1"
    /\ calls[c].newStatus = "cancelled"
    /\ Answer(calls[c]) = "success"
    /\ orders["O1"].status = "cancelled"
    /\ orders["O1"].processing_date = <<1>>
    /\ orders["O1"].updated_at = <<2>>

\* The request of record q is the request of record r over again.
SameRequest(r, q) ==
  /\ q.via = r.via
  /\ q.caller = r.caller
  /\ q.orderId = r.orderId
  /\ q.newStatus = r.newStatus

\* C15: when the caller who is neither administrator nor owner repeats a
\* request on the order, after the administrator moved the order to whatever
\* other status, the request is answered at once and with the answer it got
\* before: the answer does not depend on the status of the order.
C15_StrangerAnswerIgnoresStatus ==
  [][(/\ calls[Probe].pc = "done"
      /\ Acts(Probe)
      /\ SameRequest(calls[Probe], calls'[Probe]))
     => /\ calls'[Probe].pc = "done"
        /\ Answer(calls'[Probe]) = Answer(calls[Probe])]_vars

\* C15 witness: the administrator has taken the order to delivered by the edge
\* function, which leaves all else in the row as it was at creation, and the
\* other caller's request to cancel it has been refused.
C15_Witness ==
  /\ calls[Operator].pc = "done"
  /\ calls[Operator].via = "edge"
  /\ calls[Operator].newStatus = "delivered"
  /\ orders["O1"] = [NewOrder("U1") EXCEPT !.status = "delivered"]
  /\ calls[Probe].pc = "done"
  /\ calls[Probe].caller = "U2"
  /\ calls[Probe].newStatus = "cancelled"
  /\ Answer(calls[Probe]) \in ForbiddenAnswers

\* The results the edge function may respond with.
ListedResults ==
  {"success", "MISSING_PARAMS", "UNAUTHENTICATED", "ORDER_NOT_FOUND", "FORBIDDEN",
   "NOT_ALLOWED_FOR_USER", "INVALID_STATUS", "CONCURRENT_MODIFICATION",
   "UPDATE_FAILED", "SERVER_ERROR"}

\* The request of record r has ended with one result: a response of the edge
\* function, or the boolean the hook returns.
Ended(r) ==
  /\ r.pc = "done"
  /\ r.via = "edge" => r.edge \in ListedResults
  /\ r.via = "hook" => r.ret \in {"true", "false"}

\* The request of session c has begun and not ended.
InProgress(c) == calls[c].pc \notin {"idle", "done"}

\* The store calls of the edge function that the request may find failing.
StoreCalls == {"user_roles", "orders", "update"}

\* C16, the part that holds: a request that has begun ends, whatever fails on
\* its way, and a request that has ended has one result, a listed response of
\* the edge function or the hook's true or false.
C16_EveryRequestEnds ==
  \A c \in Serial :
    /\ [](calls[c].pc = "done" => Ended(calls[c]))
    /\ InProgress(c) ~> Ended(calls[c])

\* C16: a request that has ended has one result, success or a listed error,
\* and it is an error when the request went to the edge function and its role
\* lookup, its order read or its write failed.
C16_FailuresAreReturned ==
  \A c \in Serial :
    calls[c].pc = "done"
    => /\ Ended(calls[c])
       /\ (calls[c].via = "edge" /\ calls[c].failed \in StoreCalls)
          => calls[c].edge # "success"

\* C17: a step that adds an order to the orders table is a step of createOrder
\* for one session, and the order it adds is pending, owned by that session's
\* caller, and has no milestone timestamp.
C17_CreatedPendingOwnUnset ==
  [][\A id \in DOMAIN orders' \ DOMAIN orders :
       \E c \in Clients :
         /\ calls'[c] # calls[c]
         /\ calls'[c].via = "create"
         /\ calls'[c].orderId = id
         /\ orders'[id].user_id = calls'[c].caller
         /\ orders'[id].status = "pending"
         /\ orders'[id].processing_date = Null
         /\ orders'[id].shipped_date = Null
         /\ orders'[id].delivered_date = Null]_vars

\* C17 witness: createOrder has returned to U2 the order O2 it created for U2
\* with two items, and to the administrator the order O3.
C17_Witness ==
  /\ calls["c1"].pc = "done" /\ calls["c1"].via = "create"
  /\ calls["c1"].caller = "U2" /\ calls["c1"].orderId = "O2"
  /\ calls["c1"].ret = "order"
  /\ calls["c2"].pc = "done" /\ calls["c2"].via = "create"
  /\ calls["c2"].caller = "A1" /\ calls["c2"].orderId = "O3"
  /\ calls["c2"].ret = "order"
  /\ DOMAIN orders = {"O1", "O2", "O3"}
  /\ orders["O2"].user_id = "U2" /\ orders["O2"].status = "pending"
  /\ orders["O3"].user_id = "A1" /\ orders["O3"].status = "pending"
  /\ ItemRows("O2", Products) \subseteq order_items

\* C18: in every state, for every signed-in caller and every status of the
\* enumeration, the edge function and the stored procedure the database holds,
\* each run on its own on the order, both answer success or both refuse, and
\* leave the order in the same status.
C18_EdgeAndProcedureAgree ==
  \A u \in Users, o \in DOMAIN orders, s \in Statuses :
    EdgeOutcome(u, o, s) = RpcOutcome(rpcRev, u, o, s)

\* C18 for the two revisions that check the caller: they agree with the edge
\* function.
C18_CheckingRevisionsAgree ==
  \A u \in Users, o \in DOMAIN orders, s \in Statuses :
    \A rev \in {"fix_cancellation", "secure"} :
      EdgeOutcome(u, o, s) = RpcOutcome(rev, u, o, s)

\* C19: when the hook returns true to a signed-in caller's request on an
\* existing order, the order is in the requested status.
C19_HookTrueMeansStatusSet ==
  [][\A c \in Clients :
       (/\ Acts(c)
        /\ calls'[c].via = "hook"
        /\ calls'[c].pc = "done"
        /\ calls'[c].ret = "true"
        /\ calls'[c].caller \in Users
        /\ calls'[c].orderId \in DOMAIN orders)
       => orders'[calls'[c].orderId].status = calls'[c].newStatus]_vars

\* C20: when createOrder has returned, either it returned the order, and the
\* order row and all its items are stored, or it returned null, and it stored
\* no order row and no item.
C20_CreateAllOrNothing ==
  \A c \in Clients :
    (calls[c].pc = "done" /\ calls[c].via = "create")
    => IF calls[c].ret = "order"
       THEN /\ calls[c].orderId \in DOMAIN orders
            /\ ItemRows(calls[c].orderId, calls[c].items) \subseteq order_items
       ELSE /\ calls[c].ret = "null"
            /\ calls[c].orderId \notin DOMAIN orders
            /\ \A row \in order_items : row.order_id # calls[c].orderId

====
